---- MODULE Spec2Model ----
(***************************************************************************)
(* Model of telegram_post_bot.py: the publish pipeline (post_article), the *)
(* handlers that call it (handle_link, inline_chosen), the feed poller     *)
(* (auto_announce), the digest query, the report job (send_report) and    *)
(* the posts table.                                                        *)
(*                                                                         *)
(* Coroutines run on one asyncio event loop: a coroutine runs without      *)
(* interruption up to its next awaited transport call, so each action      *)
(* below is one such uninterrupted segment.  requests.get, the styler and  *)
(* sqlite3 calls are synchronous and never yield.                          *)
(***************************************************************************)
EXTENDS Integers, Sequences, FiniteSets, TLC

\* ---------------------------------------------------------------- bounds
MaxTasks == 2       \* callbacks started in one behaviour
MaxFeedLen == 6     \* entries in a parsed feed (poller on its own)
MaxRaceFeed == 2    \* entries in a parsed feed (poller among handlers)
MaxStore == 6       \* rows in the table a digest is asked over
MaxTie == 2         \* rows of that table inserted within one microsecond
MaxPrior == 1       \* rows in the table a poller run starts on
MaxReportStore == 2 \* rows in the table a report run starts on

\* ------------------------------------------------------ program constants
ADMIN_CHAT_ID == 100
FEED_LIMIT == 5
DIGEST_LIMIT == 5
WINDOW_DAYS == 7
REPORT_DAYS == 7

\* Python's None, kept apart from every chat id (chat ids are integers).
None == -1

Truthy(x) == x # None /\ x # 0

URLS == {"a.html", "b.html"}
CHATS == {1, 2}

\* ------------------------------------------------------------- text model
\* A str is a sequence of tokens; '' is <<>>; + and f-strings concatenate.
NLNL == "\n\n"

RECURSIVE Join(_, _)
Join(sep, parts) ==
    IF parts = <<>> THEN <<>>
    ELSE IF Len(parts) = 1 THEN Head(parts)
    ELSE Head(parts) \o <<sep>> \o Join(sep, Tail(parts))

StartsWith(s, p) == Len(s) >= Len(p) /\ SubSeq(s, 1, Len(p)) = p

\* ------------------------------------------------------------ the web
\* An HTML document as BeautifulSoup sees it: each of the three looked-up
\* tags is absent (<<>>) or present (<<content>>).
PageFull ==
    [h1 |-> << <<"T">> >>, lead |-> << <<"L">> >>,
     div |-> << [p |-> << <<"P1">>, <<"P2">> >>,
                 img |-> << <<"/", "i.jpg">>, <<"/", "/", "cdn", "k.jpg">>,
                            <<"http", "j.jpg">> >>] >>]
PageText ==
    [h1 |-> << <<"T">> >>, lead |-> <<>>,
     div |-> << [p |-> << <<"P1">> >>, img |-> <<>>] >>]
\* The articles behind the urls of the model: one with pictures, one without
\* pictures and without a lead.
WEB(url) == IF url = "a.html" THEN PageFull ELSE PageText

NormSrc(src) ==
    IF StartsWith(src, <<"/", "/">>) THEN <<"https:">> \o src
    ELSE IF StartsWith(src, <<"/">>) THEN <<"https://kuban.kp.ru">> \o src
    ELSE src

parse_article(html) ==
    LET title == IF html.h1 # <<>> THEN html.h1[1] ELSE <<>>
        lead == IF html.lead # <<>> THEN html.lead[1] ELSE <<>>
        paragraphs == IF html.div # <<>> THEN html.div[1].p ELSE <<>>
        text == Join(NLNL, paragraphs)
        images == IF html.div # <<>>
                  THEN [k \in 1..Len(html.div[1].img) |-> NormSrc(html.div[1].img[k])]
                  ELSE <<>>
    IN [title |-> title, lead |-> lead, text |-> text, images |-> images]

\* (the lead left out of the combined text)
Combined_NoLead(data) == data.title \o <<NLNL>> \o data.text

\* f"{data['title']}\n\n{data['lead']}\n\n{data['text']}"
Combined(data) == data.title \o <<NLNL>> \o data.lead \o <<NLNL>> \o data.text

\* What the styler returns when it does not raise.
generate_styled_post(content) == <<"styled">>

\* ------------------------------------------------------------ the clock
\* An instant is [day, us]: whole days since the epoch of the model and the
\* microsecond field of the datetime (0 or 1).
Instant(d, u) == [day |-> d, us |-> u]
Before(s, t) == s.day < t.day \/ (s.day = t.day /\ s.us < t.us)
MinusDays(t, n) == Instant(t.day - n, t.us)

Digit(n) == n + 48
DOT == 46

\* datetime.isoformat(): fixed-width date part, and the fraction is left out
\* when the microsecond field is 0.
IsoFormat(t) ==
    <<Digit(t.day \div 10), Digit(t.day % 10)>>
        \o (IF t.us = 0 THEN <<>> ELSE <<DOT, Digit(t.us)>>)

\* SQLite's comparison of two TEXT values: bytewise, a proper prefix is less.
RECURSIVE TextLess(_, _)
TextLess(a, b) ==
    IF b = <<>> THEN FALSE
    ELSE IF a = <<>> THEN TRUE
    ELSE IF Head(a) # Head(b) THEN Head(a) < Head(b)
    ELSE TextLess(Tail(a), Tail(b))

\* ------------------------------------------------------------- the state
VARIABLES
    posts,      \* table posts in insertion order: [chat_id, date, url]
    bot_data,   \* application.bot_data: a dict, here with at most last_chat_id
    clock,      \* what datetime.utcnow() returns
    tasks,      \* the callbacks started so far, by number
    invs        \* per callback, its finished post_article invocations in order

vars == <<posts, bot_data, clock, tasks, invs>>

TaskIds == 1..MaxTasks

\* CallbackContext as the library builds it: `job` is None (<<>>) for an
\* update handler and the Job for a job callback; run_repeating is called
\* without chat_id, so the Job's chat_id is None.
HandlerContext == [job |-> <<>>]
JobContext == [job |-> << [chat_id |-> None] >>]

hasattr(context, attr) == attr \in DOMAIN context

\* dict.get(key, default)
DictGet(d, key, default) == IF key \in DOMAIN d THEN d[key] ELSE default

\* ------------------------------------------------------------ the table
Row(chat_id, date, url) == [chat_id |-> chat_id, date |-> date, url |-> url]

\* (a poller whose existence check never finds a row)
ExistsURL_Never(P, url) == FALSE

\* SELECT 1 FROM posts WHERE url=?
ExistsURL(P, url) == \E k \in 1..Len(P) : P[k].url = url

\* (the new row put in front of the table)
Insert_Front(P, chat_id, now, url) == <<Row(chat_id, IsoFormat(now), url)>> \o P

\* INSERT INTO posts (chat_id, date, url) VALUES (?,?,?); commit
Insert(P, chat_id, now, url) == Append(P, Row(chat_id, IsoFormat(now), url))

\* ----------------------------------------------------------- post_article
\* What the outside world does to one invocation before its first await.
ENVS ==
    {[fetch |-> FALSE, rewrite |-> FALSE]} \cup [fetch : {TRUE}, rewrite : BOOLEAN]

\* (a fetch whose failure goes unnoticed)
FetchRaises_Never(env) == FALSE

\* fetch_html: requests.get or raise_for_status raises.
FetchRaises(env) == ~env.fetch

\* Line 102: (chat_id or context.job.chat_id) if hasattr(context, 'job')
\*           else bot_data.get('last_chat_id', ADMIN_CHAT_ID)
\* Reading .chat_id of a job that is None raises AttributeError.
ResolveTarget(context, chat_id, bd) ==
    IF hasattr(context, "job")
    THEN IF Truthy(chat_id) THEN [raised |-> FALSE, value |-> chat_id]
         ELSE IF context.job = <<>> THEN [raised |-> TRUE, value |-> None]
         ELSE [raised |-> FALSE, value |-> context.job[1].chat_id]
    ELSE [raised |-> FALSE, value |-> DictGet(bd, "last_chat_id", ADMIN_CHAT_ID)]

\* post_article from its call to its first await (or to the exception that
\* ends it).  `state` is "send_photo" / "send_message" while the call of that
\* name is awaited, "returned" or "raised" once the invocation is over.
BeginPost(id, idx, context, url, chat_id, env, bd, P) ==
    LET data == parse_article(WEB(url))
        combined == Combined(data)
        styled == IF env.rewrite THEN generate_styled_post(combined) ELSE combined
        tgt == ResolveTarget(context, chat_id, bd)
        base == [task |-> id, idx |-> idx, url |-> url, chat_id |-> chat_id,
                 job |-> context.job # <<>>, last |-> DictGet(bd, "last_chat_id", None),
                 fetched |-> env.fetch, before |-> Len(P),
                 rows |-> <<>>, pos |-> 0,
                 combined |-> <<>>, styled |-> <<>>, rewrite |-> "none",
                 images |-> <<>>, target |-> None,
                 steps |-> <<"fetch">>, calls |-> <<>>, acked |-> <<>>,
                 state |-> "raised", error |-> "fetch"]
    IN  IF FetchRaises(env) THEN base
        ELSE LET got == [base EXCEPT !.combined = combined, !.styled = styled,
                             !.rewrite = IF env.rewrite THEN "ok" ELSE "raised",
                             !.images = data.images,
                             !.steps = <<"fetch", "parse", "rewrite">>,
                             !.error = "target"]
             IN  IF tgt.raised THEN got
                 ELSE IF data.images # <<>>
                 THEN [got EXCEPT !.target = tgt.value, !.error = "",
                           !.state = "send_photo",
                           !.steps = @ \o <<"send_photo">>,
                           !.calls = <<[op |-> "send_photo", to |-> tgt.value,
                                        body |-> data.images[1]]>>]
                 ELSE [got EXCEPT !.target = tgt.value, !.error = "",
                           !.state = "send_message",
                           !.steps = @ \o <<"send_message">>,
                           !.calls = <<[op |-> "send_message", to |-> tgt.value,
                                        body |-> styled]>>]

\* (a failure of send_photo caught: the text is sent all the same)
AfterPhoto_Continue(inv, ok) ==
    [inv EXCEPT !.state = "send_message",
         !.steps = @ \o <<"send_message">>,
         !.acked = IF ok THEN @ \o <<"send_photo">> ELSE @,
         !.calls = @ \o <<[op |-> "send_message", to |-> inv.target,
                           body |-> inv.styled]>>]

\* send_photo came back: post_article goes on to call send_message, or the
\* exception ends it.  `acked` lists the transport calls that returned.
AfterPhoto(inv, ok) ==
    IF ok
    THEN [inv EXCEPT !.state = "send_message",
              !.steps = @ \o <<"send_message">>,
              !.acked = @ \o <<"send_photo">>,
              !.calls = @ \o <<[op |-> "send_message", to |-> inv.target,
                                body |-> inv.styled]>>]
    ELSE [inv EXCEPT !.state = "raised", !.error = "send_photo"]

\* (send_message called again after it raised)
AfterMessage_Retry(inv, ok, P, now) ==
    IF ok
    THEN [inv EXCEPT !.state = "returned", !.steps = @ \o <<"insert">>,
              !.acked = @ \o <<"send_message">>,
              !.rows = <<Row(inv.target, IsoFormat(now), inv.url)>>,
              !.pos = Len(P) + 1]
    ELSE [inv EXCEPT !.steps = @ \o <<"send_message">>,
              !.calls = @ \o <<[op |-> "send_message", to |-> inv.target,
                                body |-> inv.styled]>>]

\* send_message came back: lines 108-112, or the exception ends it.
AfterMessage(inv, ok, P, now) ==
    IF ok
    THEN [inv EXCEPT !.state = "returned", !.steps = @ \o <<"insert">>,
              !.acked = @ \o <<"send_message">>,
              !.rows = <<Row(inv.target, IsoFormat(now), inv.url)>>,
              !.pos = Len(P) + 1]
    ELSE [inv EXCEPT !.state = "raised", !.error = "send_message"]

\* (the table written back from the copy read when the invocation began)
PostsAfterMessage_Stale(inv, ok, P, now) ==
    IF ok THEN Insert(SubSeq(P, 1, inv.before), inv.target, now, inv.url) ELSE P

\* (the row written whether or not send_message returned)
PostsAfterMessage_Always(inv, ok, P, now) == Insert(P, inv.target, now, inv.url)

PostsAfterMessage(inv, ok, P, now) ==
    IF ok THEN Insert(P, inv.target, now, inv.url) ELSE P

Over(inv) == inv.state \in {"returned", "raised"}

\* ------------------------------------------------------------- callbacks
\* Updates Telegram sends: a command, a message with a url entity, an inline
\* query, the choice of an inline result.  `from` is the chat of a message
\* and the user of an inline update.
HTTP_QUERY == "http://x.html"

UPDATES ==
    [kind : {"command"}, text : {"start", "digest"}, from : CHATS]
        \cup [kind : {"url_message", "chosen_inline_result"}, text : URLS, from : CHATS]
        \cup [kind : {"inline_query"}, text : {"a.html", HTTP_QUERY}, from : CHATS]

Idle ==
    [kind |-> "idle", pc |-> "idle", feed |-> <<>>,
     entries |-> <<>>, checked |-> 0, overlapped |-> FALSE,
     snap |-> <<>>, at |-> Instant(0, 0), inv |-> <<>>, reply |-> <<>>,
     rowids |-> <<>>, upd |-> <<>>, sent |-> <<>>]

NextId == Cardinality({i \in TaskIds : tasks[i].kind # "idle"}) + 1

\* A post_article invocation of task t is suspended in a transport call.
Publishing(t) == t.pc = "await" /\ t.inv # <<>>

\* History only: a poller run during which another callback that publishes
\* is started, or which starts while one is suspended, is overlapped.
MarkOverlap(T) ==
    [i \in TaskIds |->
        IF T[i].kind = "auto_announce" /\ T[i].pc = "await"
        THEN [T[i] EXCEPT !.overlapped = TRUE] ELSE T[i]]

Min(a, b) == IF a <= b THEN a ELSE b

\* (the slice left out)
FirstEntries_All(feed) == feed

\* feed.entries[:5]
FirstEntries(feed) == SubSeq(feed, 1, Min(FEED_LIMIT, Len(feed)))

\* (the existence check made on the table as the run found it)
PollLoop_Stale(t, id, i, env, bd, P) ==
    LET new == {j \in i..Len(t.entries) : ~ExistsURL(t.snap, t.entries[j])}
    IN  IF new = {}
        THEN [task |-> [t EXCEPT !.pc = "done", !.checked = Len(t.entries),
                            !.inv = <<>>],
              over |-> <<>>]
        ELSE LET j == CHOOSE x \in new : \A y \in new : x <= y
                 inv == BeginPost(id, j, JobContext, t.entries[j], None, env, bd, P)
             IN  IF Over(inv)
                 THEN [task |-> [t EXCEPT !.pc = "failed", !.checked = j,
                                     !.inv = <<>>],
                       over |-> <<inv>>]
                 ELSE [task |-> [t EXCEPT !.pc = "await", !.checked = j,
                                     !.inv = <<inv>>],
                       over |-> <<>>]

\* (a url once handed to post_article is never tried again)
PollLoop_Memo(t, id, i, env, bd, P) ==
    LET tried(u) == \E x \in TaskIds : \E k \in 1..Len(invs[x]) : invs[x][k].url = u
        new == {j \in i..Len(t.entries) :
                    ~ExistsURL(P, t.entries[j]) /\ ~tried(t.entries[j])}
    IN  IF new = {}
        THEN [task |-> [t EXCEPT !.pc = "done", !.checked = Len(t.entries),
                            !.inv = <<>>],
              over |-> <<>>]
        ELSE LET j == CHOOSE x \in new : \A y \in new : x <= y
                 inv == BeginPost(id, j, JobContext, t.entries[j], None, env, bd, P)
             IN  IF Over(inv)
                 THEN [task |-> [t EXCEPT !.pc = "failed", !.checked = j,
                                     !.inv = <<>>],
                       over |-> <<inv>>]
                 ELSE [task |-> [t EXCEPT !.pc = "await", !.checked = j,
                                     !.inv = <<inv>>],
                       over |-> <<>>]

\* Lines 157-163 from entry i on, up to the first await inside post_article,
\* the exception that leaves auto_announce, or the end of the loop.
PollLoop(t, id, i, env, bd, P) ==
    LET new == {j \in i..Len(t.entries) : ~ExistsURL(P, t.entries[j])}
    IN  IF new = {}
        THEN [task |-> [t EXCEPT !.pc = "done", !.checked = Len(t.entries),
                            !.inv = <<>>],
              over |-> <<>>]
        ELSE LET j == CHOOSE x \in new : \A y \in new : x <= y
                 inv == BeginPost(id, j, JobContext, t.entries[j], None, env, bd, P)
             IN  IF Over(inv)
                 THEN [task |-> [t EXCEPT !.pc = "failed", !.checked = j,
                                     !.inv = <<>>],
                       over |-> <<inv>>]
                 ELSE [task |-> [t EXCEPT !.pc = "await", !.checked = j,
                                     !.inv = <<inv>>],
                       over |-> <<>>]

\* A handler whose body is one call of post_article.
HandlerPost(id, kind, u, url, chat_id, env) ==
    LET inv == BeginPost(id, 0, HandlerContext, url, chat_id, env, bot_data, posts)
    IN  /\ id = NextId
        /\ id \in TaskIds
        /\ tasks' = [MarkOverlap(tasks) EXCEPT ![id] =
                        [Idle EXCEPT !.kind = kind, !.upd = <<u>>,
                             !.pc = IF Over(inv) THEN "failed" ELSE "await",
                             !.inv = IF Over(inv) THEN <<>> ELSE <<inv>>]]
        /\ invs' = IF Over(inv) THEN [invs EXCEPT ![id] = <<inv>>] ELSE invs
        /\ UNCHANGED <<posts, bot_data, clock>>

\* handle_link: the whole stripped message text is the url; no chat_id.
handle_link(id, u, env) ==
    HandlerPost(id, "handle_link", u, u.text, None, env)

\* inline_chosen: the query is the url; chat_id is the choosing user's id.
\* On an update that is no chosen inline result, update.chosen_inline_result
\* is None and line 143 raises.
inline_chosen(id, u, env) ==
    IF u.kind = "chosen_inline_result"
    THEN HandlerPost(id, "inline_chosen", u, u.text, u.from, env)
    ELSE /\ id = NextId
         /\ id \in TaskIds
         /\ tasks' = [tasks EXCEPT ![id] =
                         [Idle EXCEPT !.kind = "inline_chosen", !.upd = <<u>>,
                              !.pc = "failed"]]
         /\ UNCHANGED <<posts, bot_data, clock, invs>>

\* auto_announce, from the parse of the feed to its first suspension.
auto_announce(id, feed, env) ==
    LET t0 == [Idle EXCEPT !.kind = "auto_announce", !.feed = feed,
                   !.entries = FirstEntries(feed), !.snap = posts,
                   !.overlapped = \E k \in TaskIds : Publishing(tasks[k])]
        r == PollLoop(t0, id, 1, env, bot_data, posts)
    IN  /\ id = NextId
        /\ id \in TaskIds
        /\ \A k \in TaskIds : ~(tasks[k].kind = "auto_announce" /\ tasks[k].pc = "await")
        /\ tasks' = [MarkOverlap(tasks) EXCEPT ![id] = r.task]
        /\ invs' = [invs EXCEPT ![id] = r.over]
        /\ UNCHANGED <<posts, bot_data, clock>>

\* start, up to the await of reply_text.
start(id, u) ==
    /\ id = NextId
    /\ id \in TaskIds
    /\ tasks' = [tasks EXCEPT ![id] =
                    [Idle EXCEPT !.kind = "start", !.upd = <<u>>, !.pc = "await"]]
    /\ UNCHANGED <<posts, bot_data, clock, invs>>

\* ------------------------------------------------------------- digest
\* The indices of S in every order ORDER BY date DESC allows (rows with
\* equal dates come in any order).
RECURSIVE OrdersDesc(_, _)
OrdersDesc(P, S) ==
    IF S = {} THEN {<<>>}
    ELSE UNION {{<<m>> \o o : o \in OrdersDesc(P, S \ {m})} :
                m \in {x \in S : \A y \in S : ~TextLess(P[x].date, P[y].date)}}

\* (the window closed at its older end: date>=?)
DigestQuery_Ge(P, now) ==
    LET week_ago == MinusDays(now, WINDOW_DAYS)
        hit == {k \in 1..Len(P) : ~TextLess(P[k].date, IsoFormat(week_ago))}
    IN  {SubSeq(o, 1, Min(DIGEST_LIMIT, Len(o))) : o \in OrdersDesc(P, hit)}

\* SELECT url FROM posts WHERE date>? ORDER BY date DESC LIMIT 5, the
\* parameter being (utcnow() - timedelta(days=7)).isoformat(): the lists of
\* row numbers it may return.
DigestQuery(P, now) ==
    LET week_ago == MinusDays(now, WINDOW_DAYS)
        hit == {k \in 1..Len(P) : TextLess(IsoFormat(week_ago), P[k].date)}
    IN  {SubSeq(o, 1, Min(DIGEST_LIMIT, Len(o))) : o \in OrdersDesc(P, hit)}

\* digest, up to the await of reply_text; reply holds the urls of the text.
digest(id, u) ==
    /\ id = NextId
    /\ id \in TaskIds
    /\ \E rows \in DigestQuery(posts, clock) :
          tasks' = [tasks EXCEPT ![id] =
                       [Idle EXCEPT !.kind = "digest", !.upd = <<u>>, !.pc = "await",
                            !.snap = posts, !.at = clock, !.rowids = rows,
                            !.reply = [k \in 1..Len(rows) |-> posts[rows[k]].url]]]
    /\ UNCHANGED <<posts, bot_data, clock, invs>>

\* ------------------------------------------------------------ send_report
\* str(n) of a non-negative int: its decimal digits.
RECURSIVE Str(_)
Str(n) == IF n < 10 THEN <<Digit(n)>> ELSE Str(n \div 10) \o <<Digit(n % 10)>>

\* (the window closed at its older end: date>=?)
CountQuery_Ge(P, now) ==
    LET week_ago == MinusDays(now, REPORT_DAYS)
    IN  Cardinality({k \in 1..Len(P) : ~TextLess(P[k].date, IsoFormat(week_ago))})

\* SELECT COUNT(*) FROM posts WHERE date>?, the parameter being
\* (utcnow() - timedelta(days=7)).isoformat()
CountQuery(P, now) ==
    LET week_ago == MinusDays(now, REPORT_DAYS)
    IN  Cardinality({k \in 1..Len(P) : TextLess(IsoFormat(week_ago), P[k].date)})

\* f"... {count} ...": the fixed words around the digits of the count.
ReportText(count) == <<"report">> \o Str(count) \o <<"posts">>

\* send_report, up to the await of send_message.
send_report(id) ==
    /\ id = NextId
    /\ id \in TaskIds
    /\ tasks' = [tasks EXCEPT ![id] =
                    [Idle EXCEPT !.kind = "send_report", !.pc = "await",
                         !.snap = posts, !.at = clock,
                         !.sent = <<[op |-> "send_message", to |-> ADMIN_CHAT_ID,
                                     body |-> ReportText(CountQuery(posts, clock))]>>]]
    /\ UNCHANGED <<posts, bot_data, clock, invs>>

\* ------------------------------------------------- transport calls return
\* reply_text of start or digest, or answer of inline_query, returns or raises.
ReplyReturns(id, ok) ==
    /\ tasks[id].pc = "await"
    /\ tasks[id].kind \in {"start", "digest", "inline_query"}
    /\ tasks' = [tasks EXCEPT ![id].pc = IF ok THEN "done" ELSE "failed"]
    /\ bot_data' = IF ok /\ tasks[id].kind = "start"
                   THEN [k \in DOMAIN bot_data \cup {"last_chat_id"} |-> tasks[id].upd[1].from]
                   ELSE bot_data
    /\ UNCHANGED <<posts, clock, invs>>

\* send_message of send_report returns or raises; the job ends either way.
ReportReturns(id, ok) ==
    /\ tasks[id].pc = "await"
    /\ tasks[id].kind = "send_report"
    /\ tasks' = [tasks EXCEPT ![id].pc = IF ok THEN "done" ELSE "failed"]
    /\ UNCHANGED <<posts, bot_data, clock, invs>>

\* send_photo of a suspended post_article returns or raises.
SendPhotoReturns(id, ok) ==
    /\ Publishing(tasks[id])
    /\ tasks[id].inv[1].state = "send_photo"
    /\ LET inv == AfterPhoto(tasks[id].inv[1], ok)
       IN  /\ tasks' = [tasks EXCEPT ![id].inv = IF Over(inv) THEN <<>> ELSE <<inv>>,
                                     ![id].pc = IF Over(inv) THEN "failed" ELSE "await"]
           /\ invs' = IF Over(inv) THEN [invs EXCEPT ![id] = Append(@, inv)] ELSE invs
    /\ UNCHANGED <<posts, bot_data, clock>>

\* send_message of a suspended post_article returns or raises; on return the
\* row is inserted and committed and the caller goes on: a handler ends, the
\* poller runs its loop up to the next suspension.
SendMessageReturns(id, ok, env) ==
    /\ Publishing(tasks[id])
    /\ tasks[id].inv[1].state = "send_message"
    /\ LET inv == AfterMessage(tasks[id].inv[1], ok, posts, clock)
           P == PostsAfterMessage(tasks[id].inv[1], ok, posts, clock)
           r == IF ok /\ tasks[id].kind = "auto_announce"
                THEN PollLoop(tasks[id], id, inv.idx + 1, env, bot_data, P)
                ELSE [task |-> [tasks[id] EXCEPT !.inv = <<>>,
                                    !.pc = IF ok THEN "done" ELSE "failed"],
                      over |-> <<>>]
       IN  /\ posts' = P
           /\ tasks' = [tasks EXCEPT ![id] = r.task]
           /\ invs' = [invs EXCEPT ![id] = Append(@, inv) \o r.over]
    /\ UNCHANGED <<bot_data, clock>>

\* --------------------------------------------------------- specifications
\* The callbacks, each started on the updates it is written for, jobs and
\* handlers overlapping in every way the event loop allows.
Of(kind) == {u \in UPDATES : u.kind = kind}
Commands(name) == {u \in Of("command") : u.text = name}

FeedsUpTo(n) == UNION {[1..k -> URLS] : k \in 0..n}

\* The table survives restarts (CREATE TABLE IF NOT EXISTS): the process
\* starts on an empty table or on one written by an earlier run.
Init ==
    /\ posts = <<>>
    /\ bot_data = <<>>
    /\ clock = Instant(WINDOW_DAYS, 0)
    /\ tasks = [i \in TaskIds |-> Idle]
    /\ invs = [i \in TaskIds |-> <<>>]

Next ==
    \/ \E id \in TaskIds, u \in Commands("start") : start(id, u)
    \/ \E id \in TaskIds, u \in Of("url_message"), e \in ENVS : handle_link(id, u, e)
    \/ \E id \in TaskIds, u \in Of("chosen_inline_result"), e \in ENVS :
          inline_chosen(id, u, e)
    \/ \E id \in TaskIds, f \in FeedsUpTo(MaxRaceFeed), e \in ENVS : auto_announce(id, f, e)
    \/ \E id \in TaskIds, ok \in BOOLEAN : ReplyReturns(id, ok)
    \/ \E id \in TaskIds, ok \in BOOLEAN : SendPhotoReturns(id, ok)
    \/ \E id \in TaskIds, ok \in BOOLEAN, e \in ENVS : SendMessageReturns(id, ok, e)

Spec == Init /\ [][Next]_vars

\* One poller run on its own: the job fires on a table left by earlier runs
\* of the process and no handler is started meanwhile.
PriorRows == {Row(1, IsoFormat(Instant(WINDOW_DAYS, 0)), u) : u \in URLS}

SeqsUpTo(S, n) == UNION {[1..k -> S] : k \in 0..n}

InitPoll ==
    /\ posts \in SeqsUpTo(PriorRows, MaxPrior)
    /\ bot_data = <<>>
    /\ clock = Instant(WINDOW_DAYS, 0)
    /\ tasks = [i \in TaskIds |-> Idle]
    /\ invs = [i \in TaskIds |-> <<>>]

NextPoll ==
    \/ \E f \in FeedsUpTo(MaxFeedLen), e \in ENVS : auto_announce(1, f, e)
    \/ \E ok \in BOOLEAN : SendPhotoReturns(1, ok)
    \/ \E ok \in BOOLEAN, e \in ENVS : SendMessageReturns(1, ok, e)

SpecPoll == InitPoll /\ [][NextPoll]_vars

\* The event loop resumes a coroutine once the call it awaits has returned
\* or raised, and every transport call does one or the other.
SpecPollLive == SpecPoll /\ WF_vars(NextPoll)

\* Digest queries: /digest arrives at some instant over a table whose rows
\* were inserted at earlier instants, in the order of their dates.
QueryClocks == {Instant(9, 0), Instant(9, 1), Instant(17, 0)}
QueryDates == {Instant(2, 1), Instant(8, 1), Instant(9, 0), Instant(9, 1), Instant(10, 1)}

\* Dates in insertion order, at most MaxTie rows within one microsecond.
QueryDateSeqs ==
    {d \in SeqsUpTo(QueryDates, MaxStore) :
        /\ \A k \in 1..(Len(d) - 1) : ~Before(d[k + 1], d[k])
        /\ \A t \in QueryDates : Cardinality({k \in 1..Len(d) : d[k] = t}) <= MaxTie}

\* The rows carry the two urls in turn, starting with either.
QueryUrl(first, k) ==
    IF k % 2 = 1 THEN first ELSE CHOOSE u \in URLS : u # first

QueryStores ==
    {[k \in 1..Len(d) |-> Row(1, IsoFormat(d[k]), QueryUrl(first, k))] :
        d \in QueryDateSeqs, first \in URLS}

InitQuery ==
    /\ posts \in QueryStores
    /\ clock \in QueryClocks
    /\ \A k \in 1..Len(posts) : ~TextLess(IsoFormat(clock), posts[k].date)
    /\ bot_data = <<>>
    /\ tasks = [i \in TaskIds |-> Idle]
    /\ invs = [i \in TaskIds |-> <<>>]

NextQuery ==
    \/ \E u \in Commands("digest") : digest(1, u)
    \/ \E ok \in BOOLEAN : ReplyReturns(1, ok)

SpecQuery == InitQuery /\ [][NextQuery]_vars

\* Report runs: the job fires at some instant over a table left by earlier
\* publishes, and one more callback, a publish or a second report, runs
\* before, after or across it.
ReportStores == {P \in QueryStores : Len(P) <= MaxReportStore}

ReportIds == 1..2

InitReport ==
    /\ posts \in ReportStores
    /\ clock \in QueryClocks
    /\ \A k \in 1..Len(posts) : ~TextLess(IsoFormat(clock), posts[k].date)
    /\ bot_data = <<>>
    /\ tasks = [i \in TaskIds |-> Idle]
    /\ invs = [i \in TaskIds |-> <<>>]

NextReport ==
    \/ \E id \in ReportIds : send_report(id)
    \/ \E id \in ReportIds, u \in Of("chosen_inline_result"), e \in ENVS :
          inline_chosen(id, u, e)
    \/ \E id \in ReportIds, ok \in BOOLEAN : ReportReturns(id, ok)
    \/ \E id \in ReportIds, ok \in BOOLEAN : SendPhotoReturns(id, ok)
    \/ \E id \in ReportIds, ok \in BOOLEAN, e \in ENVS : SendMessageReturns(id, ok, e)

SpecReport == InitReport /\ [][NextReport]_vars

\* ------------------------------------------------- the application, wired
\* inline_query: a query that does not start with 'http' is ignored, any
\* other is answered with one suggestion.
inline_query(id, u) ==
    /\ id = NextId
    /\ id \in TaskIds
    /\ tasks' = [tasks EXCEPT ![id] =
                    [Idle EXCEPT !.kind = "inline_query", !.upd = <<u>>,
                         !.pc = IF u.text = HTTP_QUERY THEN "await" ELSE "done"]]
    /\ UNCHANGED <<posts, bot_data, clock, invs>>

\* The handlers in the order __main__ adds them (all in the default group).
HANDLERS ==
    <<[type |-> "CommandHandler", command |-> "start", callback |-> "start"],
      [type |-> "MessageHandler", command |-> "", callback |-> "handle_link"],
      [type |-> "InlineQueryHandler", command |-> "", callback |-> "inline_query"],
      [type |-> "CommandHandler", command |-> "digest", callback |-> "digest"],
      [type |-> "InlineQueryHandler", command |-> "", callback |-> "inline_chosen"]>>

\* Handler.check_update of each handler type.
CheckUpdate(h, u) ==
    CASE h.type = "CommandHandler" -> u.kind = "command" /\ u.text = h.command
      [] h.type = "MessageHandler" -> u.kind = "url_message"
      [] h.type = "InlineQueryHandler" -> u.kind = "inline_query"

\* Within a group the first handler that accepts the update handles it and
\* no other does; an update no handler accepts is dropped.
Route(u) ==
    LET hit == {k \in 1..Len(HANDLERS) : CheckUpdate(HANDLERS[k], u)}
    IN  IF hit = {} THEN "none"
        ELSE HANDLERS[CHOOSE k \in hit : \A j \in hit : k <= j].callback

\* The callback runs on the update; updates are handled one after the other
\* (the application is built without concurrent_updates).
process_update(id, u, env) ==
    /\ \A k \in TaskIds : ~(tasks[k].upd # <<>> /\ tasks[k].pc = "await")
    /\ LET cb == Route(u)
       IN  CASE cb = "start" -> start(id, u)
             [] cb = "digest" -> digest(id, u)
             [] cb = "handle_link" -> handle_link(id, u, env)
             [] cb = "inline_query" -> inline_query(id, u)
             [] cb = "inline_chosen" -> inline_chosen(id, u, env)
             [] OTHER -> /\ id = NextId
                         /\ id \in TaskIds
                         /\ tasks' = [tasks EXCEPT ![id] =
                                         [Idle EXCEPT !.kind = "dropped", !.upd = <<u>>,
                                              !.pc = "done"]]
                         /\ UNCHANGED <<posts, bot_data, clock, invs>>

InitApp == Init

NextApp ==
    \/ \E id \in TaskIds, u \in UPDATES, e \in ENVS : process_update(id, u, e)
    \/ \E id \in TaskIds, f \in FeedsUpTo(MaxRaceFeed), e \in ENVS : auto_announce(id, f, e)
    \/ \E id \in TaskIds, ok \in BOOLEAN : ReplyReturns(id, ok)
    \/ \E id \in TaskIds, ok \in BOOLEAN : SendPhotoReturns(id, ok)
    \/ \E id \in TaskIds, ok \in BOOLEAN, e \in ENVS : SendMessageReturns(id, ok, e)

SpecApp == InitApp /\ [][NextApp]_vars

\* Every callback of the program on one table: the publishers, the readers
\* (digest, send_report) and the handlers that touch neither (start,
\* inline_query), overlapping in every way the event loop allows.  Updates
\* come from one chat and the feed is one of two.
StoreFeeds == {<<"a.html", "b.html">>, <<"b.html">>}

StoreUpdates == {u \in UPDATES : u.from = 1}

NextStore ==
    \/ \E id \in TaskIds, u \in StoreUpdates :
          \/ u.kind = "command" /\ u.text = "start" /\ start(id, u)
          \/ u.kind = "command" /\ u.text = "digest" /\ digest(id, u)
          \/ u.kind = "inline_query" /\ inline_query(id, u)
    \/ \E id \in TaskIds, u \in StoreUpdates, e \in ENVS :
          \/ u.kind = "url_message" /\ handle_link(id, u, e)
          \/ u.kind = "chosen_inline_result" /\ inline_chosen(id, u, e)
    \/ \E id \in TaskIds, f \in StoreFeeds, e \in ENVS : auto_announce(id, f, e)
    \/ \E id \in TaskIds : send_report(id)
    \/ \E id \in TaskIds, ok \in BOOLEAN : ReplyReturns(id, ok)
    \/ \E id \in TaskIds, ok \in BOOLEAN : ReportReturns(id, ok)
    \/ \E id \in TaskIds, ok \in BOOLEAN : SendPhotoReturns(id, ok)
    \/ \E id \in TaskIds, ok \in BOOLEAN, e \in ENVS : SendMessageReturns(id, ok, e)

SpecStore == Init /\ [][NextStore]_vars

\* ================================================================ claims
Pollers == {id \in TaskIds : tasks[id].kind = "auto_announce"}

\* Every post_article invocation of callback id: the finished ones, then the
\* one in flight.
AllInvs(id) == invs[id] \o tasks[id].inv

RECURSIVE RowsOf(_)
RowsOf(is) == IF is = <<>> THEN <<>> ELSE Head(is).rows \o RowsOf(Tail(is))

Urls(P) == [k \in 1..Len(P) |-> P[k].url]

\* C1: a poller run that no other publish overlaps appends no row for a url
\* that had a row when the run started; started on a table holding only
\* a.html with the feed [a.html, b.html], a run that ends without a failure
\* has appended exactly one row, for b.html, right behind the rows it found.
C1_IdempotentDedup ==
    \A id \in Pollers :
        ~tasks[id].overlapped =>
            /\ \A k \in 1..Len(invs[id]) :
                  invs[id][k].rows # <<>> =>
                      \A q \in 1..Len(tasks[id].snap) :
                          tasks[id].snap[q].url # invs[id][k].url
            /\ SubSeq(posts, 1, Len(tasks[id].snap) + Len(RowsOf(invs[id])))
                  = tasks[id].snap \o RowsOf(invs[id])
            /\ (/\ tasks[id].pc = "done"
                /\ Urls(tasks[id].snap) = <<"a.html">>
                /\ tasks[id].feed = <<"a.html", "b.html">>)
                  => Urls(RowsOf(invs[id])) = <<"b.html">>

C1_Witness ==
    \E id \in Pollers :
        /\ ~tasks[id].overlapped
        /\ tasks[id].pc = "done"
        /\ Urls(tasks[id].snap) = <<"a.html">>
        /\ tasks[id].feed = <<"a.html", "b.html">>
        /\ Urls(posts) = <<"a.html", "b.html">>

RawCombined(url) ==
    IF url = "a.html" THEN <<"T", "\n\n", "L", "\n\n", "P1", "\n\n", "P2">>
    ELSE <<"T", "\n\n", "\n\n", "P1">>

SendTexts(inv) == SelectSeq(inv.calls, LAMBDA c : c.op = "send_message")

\* C3: an invocation whose rewrite raised while fetch and delivery succeeded
\* made exactly one send_message call, with the raw combined text, and
\* appended exactly one row, for its url.
C3_FallbackCorrect ==
    \A id \in TaskIds :
        \A k \in 1..Len(invs[id]) :
            LET inv == invs[id][k]
            IN  (inv.rewrite = "raised" /\ inv.state = "returned") =>
                    /\ Len(SendTexts(inv)) = 1
                    /\ SendTexts(inv)[1].body = RawCombined(inv.url)
                    /\ Len(inv.rows) = 1
                    /\ inv.rows[1].url = inv.url
                    /\ inv.pos \in 1..Len(posts)
                    /\ posts[inv.pos] = inv.rows[1]

C3_Witness ==
    \E id \in TaskIds :
        \E k \in 1..Len(invs[id]) :
            /\ invs[id][k].rewrite = "raised"
            /\ invs[id][k].state = "returned"
            /\ invs[id][k].url = "a.html"

\* C4: past the fetch, every invocation resolves its destination to the
\* override when one is given, else to last_chat_id when set, else to
\* ADMIN_CHAT_ID, from a handler and from a job alike.
C4_DestinationResolution ==
    \A id \in TaskIds :
        \A k \in 1..Len(AllInvs(id)) :
            LET inv == AllInvs(id)[k]
            IN  inv.fetched =>
                    /\ inv.error # "target"
                    /\ inv.target = (IF Truthy(inv.chat_id) THEN inv.chat_id
                                     ELSE IF inv.last # None THEN inv.last
                                     ELSE ADMIN_CHAT_ID)

\* C5: every chosen-inline-result update (u, U) reaches inline_chosen, which
\* calls post_article with chat_id = U, and the destination is U.
C5_ChosenInlineToUser ==
    \A id \in TaskIds :
        (tasks[id].upd # <<>> /\ tasks[id].upd[1].kind = "chosen_inline_result") =>
            /\ tasks[id].kind = "inline_chosen"
            /\ Len(AllInvs(id)) = 1
            /\ AllInvs(id)[1].chat_id = tasks[id].upd[1].from
            /\ AllInvs(id)[1].fetched => AllInvs(id)[1].target = tasks[id].upd[1].from

\* C6: every direct link arriving on chat c makes handle_link call
\* post_article without override, and the destination is c.
C6_DirectLinkToItsChat ==
    \A id \in TaskIds :
        tasks[id].kind = "handle_link" =>
            /\ Len(AllInvs(id)) = 1
            /\ AllInvs(id)[1].chat_id = None
            /\ AllInvs(id)[1].fetched =>
                  /\ AllInvs(id)[1].error # "target"
                  /\ AllInvs(id)[1].target = tasks[id].upd[1].from

\* C7: a poller run that is over, with or without a failed publish, has made
\* the existence check for every one of its entries.
C7_FailureIsolated ==
    \A id \in Pollers :
        tasks[id].pc \in {"done", "failed"} =>
            tasks[id].checked = Len(SubSeq(tasks[id].feed, 1, Min(5, Len(tasks[id].feed))))

\* The urls of es that have no row in P, each once, in the order of es.
RECURSIVE Fresh(_, _, _)
Fresh(es, P, acc) ==
    IF es = <<>> THEN acc
    ELSE Fresh(Tail(es), P,
               IF (\E k \in 1..Len(P) : P[k].url = Head(es))
                      \/ (\E k \in 1..Len(acc) : acc[k] = Head(es))
               THEN acc ELSE Append(acc, Head(es)))

FirstFive(feed) == SubSeq(feed, 1, Min(5, Len(feed)))

C8_Outcome ==
    \A id \in Pollers :
        (tasks[id].pc = "done" /\ ~tasks[id].overlapped) =>
            LET five == FirstFive(tasks[id].feed)
                old == Len(tasks[id].snap)
            IN  /\ \A k \in 1..Len(five) : \E q \in 1..Len(posts) : posts[q].url = five[k]
                /\ SubSeq(posts, 1, old) = tasks[id].snap
                /\ Urls(SubSeq(posts, old + 1, Len(posts))) = Fresh(five, tasks[id].snap, <<>>)
                /\ \A k \in 1..Len(invs[id]) : invs[id][k].idx <= 5
                /\ (tasks[id].snap = <<>> /\ tasks[id].feed = <<"a.html", "b.html">>)
                      => Urls(posts) = <<"a.html", "b.html">>

\* C8: a poller run on its own comes to an end; when it ends without an
\* exception every url among the first 5 entries has a row, the rows it
\* appended are one per url that had none, in feed order, and nothing past
\* the fifth entry was published; on an empty table and the feed
\* [a.html, b.html] the table then holds a.html, b.html.
C8_PollerRun ==
    /\ []C8_Outcome
    /\ (tasks[1].pc = "await") ~> (tasks[1].pc \in {"done", "failed"})

C8_Witness ==
    \E id \in Pollers :
        /\ tasks[id].pc = "done"
        /\ Len(tasks[id].feed) = 6
        /\ \A k \in 1..5 : tasks[id].feed[k] # tasks[id].feed[6]
        /\ \A q \in 1..Len(posts) : posts[q].url # tasks[id].feed[6]
        /\ Len(posts) = Len(tasks[id].snap) + 1

Returned ==
    UNION {{<<id, k>> : k \in {j \in 1..Len(invs[id]) : invs[id][j].state = "returned"}} :
           id \in TaskIds}

\* C9: an invocation whose fetch failed ended right there: no rewrite, no
\* transport call, no row; the table holds one row per invocation that
\* returned and none for any other.
C9_FetchFailureHasNoEffect ==
    /\ \A id \in TaskIds :
          \A k \in 1..Len(AllInvs(id)) :
              LET inv == AllInvs(id)[k]
              IN  ~inv.fetched =>
                      /\ inv.state = "raised" /\ inv.error = "fetch"
                      /\ inv.steps = <<"fetch">> /\ inv.rewrite = "none"
                      /\ inv.calls = <<>> /\ inv.rows = <<>>
    /\ Len(posts) = Cardinality(Returned)

C9_Witness ==
    \E id \in Pollers :
        /\ Len(invs[id]) = 2
        /\ invs[id][1].state = "returned"
        /\ ~invs[id][2].fetched
        /\ Len(posts) = 1

\* The instant a stored date was formatted from.
InstantOf(date) == CHOOSE t \in QueryDates : IsoFormat(t) = date

InWindow(P, now) ==
    {k \in 1..Len(P) : Before(MinusDays(now, 7), InstantOf(P[k].date))}

\* C10: digest replies with the urls of rows dated strictly after now minus
\* 7 days, most recent first, at most 5 of them, and when more than 5 are in
\* the window with the 5 most recent.
C10_Digest ==
    \A id \in TaskIds :
        tasks[id].kind = "digest" =>
            LET P == tasks[id].snap
                r == tasks[id].rowids
                W == InWindow(P, tasks[id].at)
                T(k) == InstantOf(P[k].date)
            IN  /\ Len(tasks[id].reply) = Len(r)
                /\ \A k \in 1..Len(r) : r[k] \in W /\ tasks[id].reply[k] = P[r[k]].url
                /\ \A j, k \in 1..Len(r) : j < k => r[j] # r[k] /\ ~Before(T(r[j]), T(r[k]))
                /\ Len(r) = Min(5, Cardinality(W))
                /\ \A w \in W : (\A k \in 1..Len(r) : r[k] # w) =>
                      \A k \in 1..Len(r) : ~Before(T(r[k]), T(w))

C10_Witness ==
    \E id \in TaskIds :
        /\ tasks[id].kind = "digest"
        /\ Len(tasks[id].snap) = 6
        /\ Cardinality(InWindow(tasks[id].snap, tasks[id].at)) = 6
        /\ Len(tasks[id].reply) = 5
        /\ tasks[id].rowids = <<5, 6, 4, 3, 2>>
        /\ tasks[id].reply[1] # tasks[id].reply[2]
        /\ tasks[id].snap[5].date = tasks[id].snap[6].date

\* A digest over a table with a row exactly 7 days old and a row older than
\* that: neither is listed.
C10_WitnessEdge ==
    \E id \in TaskIds :
        /\ tasks[id].kind = "digest"
        /\ \E k \in 1..Len(tasks[id].snap) :
              InstantOf(tasks[id].snap[k].date) = MinusDays(tasks[id].at, 7)
        /\ tasks[id].reply # <<>>
        /\ Len(tasks[id].reply) < Len(tasks[id].snap) - 1

\* The instant a stored date was formatted from, for rows of a report run.
ReportInstantOf(date) ==
    CHOOSE t \in QueryDates \cup QueryClocks : IsoFormat(t) = date

ReportWindow(P, now) ==
    {k \in 1..Len(P) : Before(MinusDays(now, 7), ReportInstantOf(P[k].date))}

\* The non-negative int a digit string stands for.
RECURSIVE IntOf(_)
IntOf(ds) ==
    IF ds = <<>> THEN 0
    ELSE 10 * IntOf(SubSeq(ds, 1, Len(ds) - 1)) + (ds[Len(ds)] - 48)

\* C11: every run of send_report makes exactly one transport call, a
\* send_message to ADMIN_CHAT_ID, and the count in its text is the number of
\* rows dated strictly after the instant of the run minus 7 days, whatever
\* the table holds, rows appended by a publish around the run included.
C11_ReportCount ==
    \A id \in TaskIds :
        tasks[id].kind = "send_report" =>
            LET t == tasks[id]
                n == Cardinality(ReportWindow(t.snap, t.at))
            IN  /\ Len(t.sent) = 1
                /\ t.sent[1].op = "send_message"
                /\ t.sent[1].to = ADMIN_CHAT_ID
                /\ Head(t.sent[1].body) = "report"
                /\ t.sent[1].body[Len(t.sent[1].body)] = "posts"
                /\ IntOf(SubSeq(t.sent[1].body, 2, Len(t.sent[1].body) - 1)) = n
                /\ t.inv = <<>> /\ invs[id] = <<>>

\* A report over a table holding a row exactly 7 days old, which is not
\* counted, and a row appended by a publish of the same process, which is.
C11_Witness ==
    \E id \in TaskIds :
        /\ tasks[id].kind = "send_report"
        /\ tasks[id].pc = "done"
        /\ \E k \in 1..Len(tasks[id].snap) :
              ReportInstantOf(tasks[id].snap[k].date) = MinusDays(tasks[id].at, 7)
        /\ \E j \in TaskIds :
              /\ Len(invs[j]) = 1
              /\ invs[j][1].state = "returned"
              /\ invs[j][1].pos <= Len(tasks[id].snap)
        /\ tasks[id].sent[1].body = <<"report", 50, "posts">>
        /\ Len(tasks[id].snap) = 3

\* The step is the last one of a publish of callback id: its send_message
\* returns and its row goes into the table.
FinalStep(id) ==
    /\ Publishing(tasks[id])
    /\ tasks[id].inv[1].state = "send_message"
    /\ Len(invs'[id]) > Len(invs[id])
    /\ invs'[id][Len(invs[id]) + 1].state = "returned"
    /\ posts' = Append(posts, Row(tasks[id].inv[1].target, IsoFormat(clock),
                                  tasks[id].inv[1].url))

\* The step starts a callback (for a publisher: the existence check, the
\* fetch, the rewrite, up to its first await), or ends the awaited call of
\* start, digest, send_report or inline_query, or ends a send_photo, or ends
\* a send_message in a failure.
ReadOnlyStep ==
    \/ \E id \in TaskIds : tasks[id].kind = "idle" /\ tasks'[id].kind # "idle"
    \/ \E id \in TaskIds :
          /\ tasks[id].pc = "await" /\ tasks'[id].pc # "await"
          /\ tasks[id].kind \in {"start", "digest", "send_report", "inline_query"}
    \/ \E id \in TaskIds :
          /\ Publishing(tasks[id])
          /\ tasks[id].inv[1].state = "send_photo"
          /\ tasks'[id].inv # tasks[id].inv
    \/ \E id \in TaskIds :
          /\ Publishing(tasks[id])
          /\ tasks[id].inv[1].state = "send_message"
          /\ Len(invs'[id]) > Len(invs[id])
          /\ invs'[id][Len(invs[id]) + 1].state = "raised"

\* C12: the table changes only in the last step of a publish, by one row
\* (destination, now, url) appended behind the rows it had, which stay as
\* they were; starting or ending digest, send_report, start and
\* inline_query, the poller's existence check and every publish that fails
\* leave it as it is; the table of a state is a prefix of the next one's.
C12_AppendOnly ==
    [][/\ posts' # posts => \E id \in TaskIds : FinalStep(id)
       /\ ReadOnlyStep => posts' = posts
       /\ Len(posts') \in {Len(posts), Len(posts) + 1}
       /\ SubSeq(posts', 1, Len(posts)) = posts]_vars

\* A poller run has appended two rows one after the other and a digest was
\* started meanwhile or afterwards.
C12_Witness ==
    /\ Len(posts) = 2
    /\ \E id \in Pollers : Len(RowsOf(AllInvs(id))) = 2
    /\ \E id \in TaskIds : tasks[id].kind = "digest"

Ops(calls) == [k \in 1..Len(calls) |-> calls[k].op]

\* The send_photo call of inv is over and did not return: it raised.
PhotoFailed(inv) ==
    /\ inv.calls # <<>>
    /\ inv.calls[1].op = "send_photo"
    /\ inv.state # "send_photo"
    /\ inv.acked = <<>>

\* C13: an invocation whose article has an image and whose send_photo call,
\* for the first image, raised has made no send_message call and appended
\* no row, then or later; an invocation whose article has no image makes no
\* send_photo call; the table holds the rows the run found plus those of its
\* invocations that returned.
C13_PhotoFailureAborts ==
    /\ \A id \in TaskIds :
          \A k \in 1..Len(AllInvs(id)) :
              LET inv == AllInvs(id)[k]
              IN  /\ PhotoFailed(inv) =>
                        /\ inv.images # <<>>
                        /\ inv.calls = <<[op |-> "send_photo", to |-> inv.target,
                                          body |-> inv.images[1]]>>
                        /\ inv.rows = <<>>
                        /\ inv.state = "raised"
                  /\ (inv.fetched /\ inv.images = <<>>) =>
                        \A c \in 1..Len(inv.calls) : inv.calls[c].op # "send_photo"
                  /\ (inv.images # <<>> /\ inv.error # "target") =>
                        Ops(inv.calls) \in {<<"send_photo">>, <<"send_photo", "send_message">>}
    /\ \A id \in Pollers :
          ~tasks[id].overlapped => posts = tasks[id].snap \o RowsOf(invs[id])

\* A run on the feed [b.html, a.html, ...]: b.html, without image, went out
\* with no send_photo call; then the photo of a.html failed and the table
\* holds the row of b.html only.
C13_Witness ==
    /\ tasks[1].kind = "auto_announce"
    /\ tasks[1].pc = "failed"
    /\ Len(invs[1]) = 2
    /\ invs[1][1].state = "returned" /\ Ops(invs[1][1].calls) = <<"send_message">>
    /\ PhotoFailed(invs[1][2])
    /\ Urls(posts) = Urls(tasks[1].snap) \o <<"b.html">>

\* The invocations whose send_message has returned, as <<callback, number>>.
Delivered ==
    UNION {{<<id, k>> : k \in {j \in 1..Len(AllInvs(id)) :
                                  \E a \in 1..Len(AllInvs(id)[j].acked) :
                                      AllInvs(id)[j].acked[a] = "send_message"}} :
           id \in TaskIds}

InvAt(d) == AllInvs(d[1])[d[2]]

\* C14: however the publishes of the poller, of direct links and of inline
\* choices interleave, every invocation whose send_message returned has
\* exactly one row in the table, at a place of its own, carrying the target
\* and the url of that invocation, and the table holds nothing else.
C14_AppendSafe ==
    /\ \A d \in Delivered :
          /\ Len(InvAt(d).rows) = 1
          /\ InvAt(d).pos \in 1..Len(posts)
          /\ posts[InvAt(d).pos] = InvAt(d).rows[1]
          /\ posts[InvAt(d).pos].chat_id = InvAt(d).target
          /\ posts[InvAt(d).pos].url = InvAt(d).url
    /\ \A d, e \in Delivered : d # e => InvAt(d).pos # InvAt(e).pos
    /\ Len(posts) = Cardinality(Delivered)

\* Two publishes, one by the poller and one by inline_chosen, for different
\* urls and targets, both begun on the empty table, both delivered: the one
\* begun first inserted last.
C14_Witness ==
    \E d, e \in Delivered :
        /\ d[1] < e[1]
        /\ tasks[d[1]].kind = "auto_announce" /\ tasks[e[1]].kind = "inline_chosen"
        /\ InvAt(d).before = 0 /\ InvAt(e).before = 0
        /\ InvAt(d).pos = 2 /\ InvAt(e).pos = 1
        /\ InvAt(d).url # InvAt(e).url
        /\ InvAt(d).target # InvAt(e).target

IsPrefix(a, b) == Len(a) <= Len(b) /\ SubSeq(b, 1, Len(a)) = a

\* The steps of a whole invocation on an article with or without images.
AllSteps(images) ==
    <<"fetch", "parse", "rewrite">>
        \o (IF images # <<>> THEN <<"send_photo">> ELSE <<>>)
        \o <<"send_message", "insert">>

\* C15: the steps of every invocation, finished or under way, are the first
\* so many of fetch, parse, rewrite, send_photo (only for an article with
\* images, and then with the first image), send_message, insert, each
\* at most once; the transport calls made are the send steps, in that order;
\* a row is written only by the insert, which comes last.
C15_StepOrder ==
    \A id \in TaskIds :
        \A k \in 1..Len(AllInvs(id)) :
            LET inv == AllInvs(id)[k]
            IN  /\ inv.steps # <<>>
                /\ IsPrefix(inv.steps, AllSteps(inv.images))
                /\ Ops(inv.calls) =
                      SelectSeq(inv.steps, LAMBDA x : x \in {"send_photo", "send_message"})
                /\ \A c \in 1..Len(inv.calls) :
                      inv.calls[c].op = "send_photo" => inv.calls[c].body = inv.images[1]
                /\ Len(inv.rows) <= 1
                /\ inv.rows # <<>> <=> inv.steps[Len(inv.steps)] = "insert"
                /\ inv.state = "raised" => inv.steps[Len(inv.steps)] # "insert"
                /\ (inv.rewrite = "none") <=> (Len(inv.steps) = 1)

\* An invocation on the article with images that went through all six
\* steps, and one that stopped at a send_message that raised.
C15_Witness ==
    /\ \E k \in 1..Len(invs[1]) :
          invs[1][k].steps =
              <<"fetch", "parse", "rewrite", "send_photo", "send_message", "insert">>
    /\ \E k \in 1..Len(invs[1]) :
          /\ invs[1][k].error = "send_message"
          /\ invs[1][k].steps = <<"fetch", "parse", "rewrite", "send_message">>

\* The send_message calls of callback id that have returned, as
\* <<callback, invocation, place in acked>>.
AckedOf(id) ==
    UNION {{<<id, k, a>> : a \in {x \in 1..Len(AllInvs(id)[k].acked) :
                                     AllInvs(id)[k].acked[x] = "send_message"}} :
           k \in 1..Len(AllInvs(id))}

AckedTexts == UNION {AckedOf(id) : id \in TaskIds}

\* C16: every row (d, u) of the table was written by an invocation for u
\* whose send_message call to d had returned; an invocation that ended in an
\* exception, wherever it was raised, wrote none; there are never more rows
\* than send_message calls that returned.
C16_FailedNeverRecorded ==
    /\ \A q \in 1..Len(posts) :
          \E d \in Delivered :
              /\ InvAt(d).pos = q
              /\ InvAt(d).url = posts[q].url
              /\ \E c \in 1..Len(InvAt(d).calls) :
                    /\ InvAt(d).calls[c].op = "send_message"
                    /\ InvAt(d).calls[c].to = posts[q].chat_id
    /\ \A id \in TaskIds :
          \A k \in 1..Len(AllInvs(id)) :
              AllInvs(id)[k].state # "returned" => AllInvs(id)[k].rows = <<>>
    /\ Len(posts) <= Cardinality(AckedTexts)

\* A publish whose send_message raised next to one that was delivered: one
\* row, that of the delivered one.
C16_Witness ==
    /\ Len(posts) = 1
    /\ \E id \in TaskIds :
          /\ tasks[id].kind = "inline_chosen"
          /\ Len(invs[id]) = 1
          /\ invs[id][1].error = "send_message"
          /\ Ops(invs[id][1].calls) = <<"send_photo", "send_message">>
    /\ \E d \in Delivered : tasks[d[1]].kind = "auto_announce"

\* The invocations of callback id for url, finished or under way.
InvsFor(id, url) == {k \in 1..Len(AllInvs(id)) : AllInvs(id)[k].url = url}

\* C17: in a poller run that no other publish overlaps, a url that occurs
\* several times among the first 5 feed entries is handed to post_article
\* at most once, at its first occurrence, so at most one send_message call
\* and at most one appended row carry it.
C17_DuplicateInFeedOnce ==
    \A id \in Pollers :
        ~tasks[id].overlapped =>
            \A url \in URLS :
                /\ Cardinality(InvsFor(id, url)) <= 1
                /\ Cardinality({q \in (Len(tasks[id].snap) + 1)..Len(posts) :
                                    posts[q].url = url}) <= 1
                /\ \A k \in InvsFor(id, url) :
                      /\ AllInvs(id)[k].idx <= 5
                      /\ \A j \in 1..(AllInvs(id)[k].idx - 1) : tasks[id].feed[j] # url

\* A run on the empty table over a feed that names each url more than once
\* among its first 5 entries: it ends with one row for each.
C17_Witness ==
    /\ tasks[1].kind = "auto_announce"
    /\ tasks[1].pc = "done"
    /\ tasks[1].snap = <<>>
    /\ FirstFive(tasks[1].feed) = <<"b.html", "a.html", "b.html", "a.html", "b.html">>
    /\ Urls(posts) = <<"b.html", "a.html">>
    /\ Len(invs[1]) = 2

\* Invocation k of callback id ended in an exception after its send_photo
\* had returned.
FailedAfterPhoto(id, k) ==
    /\ invs[id][k].state = "raised"
    /\ invs[id][k].acked = <<"send_photo">>

\* C18: a poller run skips an entry only for a row in the table: every entry
\* its loop has reached either has a row or was handed to post_article by
\* this run, whatever earlier runs attempted; when an earlier run's attempt
\* for the url failed after its photo had gone out, the later run's attempt
\* calls send_photo with the same photo again; and the runs that no other
\* publish overlaps append at most one row for the url between them.
C18_RetryAfterFailure ==
    /\ \A id \in Pollers :
          \A k \in 1..tasks[id].checked :
              \/ \E j \in 1..Len(AllInvs(id)) : AllInvs(id)[j].idx = k
              \/ \E q \in 1..Len(posts) : posts[q].url = tasks[id].entries[k]
    /\ \A i, j \in Pollers :
          i < j =>
              \A a \in 1..Len(invs[i]) :
                  \A b \in 1..Len(AllInvs(j)) :
                      (FailedAfterPhoto(i, a) /\ AllInvs(j)[b].url = invs[i][a].url
                          /\ AllInvs(j)[b].fetched) =>
                          /\ AllInvs(j)[b].calls # <<>>
                          /\ AllInvs(j)[b].calls[1] = invs[i][a].calls[1]
                          /\ AllInvs(j)[b].calls[1].op = "send_photo"
    /\ (\A id \in Pollers : ~tasks[id].overlapped) =>
          \A url \in URLS :
              Cardinality({d \in Delivered : d[1] \in Pollers /\ InvAt(d).url = url}) <= 1

\* Two runs on the feed [a.html, b.html]: in the first the photo of a.html
\* went out and send_message raised; the second sent the photo again, then
\* the text, and the table holds the one row for a.html.
C18_Witness ==
    /\ Pollers = {1, 2}
    /\ Len(invs[1]) = 1 /\ FailedAfterPhoto(1, 1)
    /\ invs[1][1].url = "a.html"
    /\ \E b \in 1..Len(invs[2]) :
          /\ invs[2][b].url = "a.html"
          /\ invs[2][b].acked = <<"send_photo", "send_message">>
    /\ Cardinality({q \in 1..Len(posts) : posts[q].url = "a.html"}) = 1

====
